---- MODULE Spec2Model ----
(***************************************************************************)
(* One call of SubprocessBackend.extract_concepts                          *)
(* (src/pymetamap/SubprocessBackend.py), as a state machine over the       *)
(* filesystem, the file handles the call opens, the child process and the  *)
(* call's local variables.  Text is a sequence of one-character strings.   *)
(***************************************************************************)
EXTENDS Integers, Sequences, FiniteSets, TLC

VARIABLES pc, req, files, handles, buffer, idx, command, child, out1,
          error, output, pending, exc, result,
          events, trace, spawnCount, created, faults, cleanupDone, childWrote

vars == <<pc, req, files, handles, buffer, idx, command, child, out1,
          error, output, pending, exc, result,
          events, trace, spawnCount, created, faults, cleanupDone, childWrote>>

(***************************************************************************)
(* Bounds of the model.                                                    *)
(***************************************************************************)
MaxSentences == 2
MaxIds == 2

(***************************************************************************)
(* Python values.                                                          *)
(***************************************************************************)
None == [isNone |-> TRUE, val |-> <<>>]
Some(v) == [isNone |-> FALSE, val |-> v]
NoneInt == [isNone |-> TRUE, val |-> 0]

NoExc == [type |-> "None", line |-> 0]
Exc(t, l) == [type |-> t, line |-> l]

\* Sentinels for the string-valued keyword defaults (filename=None,
\* dir_temp=None, mm_data_version=False).
NoFilename == "<None>"
NoDirTemp == "<None>"
MMUnset == "<False>"

NL == "\n"
BS == "\\"
SQ == "'"
DQ == "\""

RECURSIVE SeqsUpTo(_, _)
SeqsUpTo(S, n) ==
  IF n = 0 THEN {<<>>}
  ELSE LET shorter == SeqsUpTo(S, n - 1)
       IN shorter \cup {Append(s, x) : s \in {t \in shorter : Len(t) = n - 1}, x \in S}

Min(a, b) == IF a < b THEN a ELSE b

InSeq(x, s) == \E i \in 1..Len(s) : s[i] = x

\* The characters str.rstrip() / bytes.rstrip() remove.
Whitespace == {" ", "\t", NL, "\r"}

(***************************************************************************)
(* Text functions of the Python runtime used by the call.                  *)
(***************************************************************************)
\* The quote repr() chooses: double quotes when the text holds a single
\* quote and no double quote, single quotes otherwise.
ReprQuote(s) == IF InSeq(SQ, s) /\ ~InSeq(DQ, s) THEN DQ ELSE SQ

EscapeChar(c, q) ==
  IF c = BS THEN <<BS, BS>>
  ELSE IF c = NL THEN <<BS, "n">>
  ELSE IF c = "\t" THEN <<BS, "t">>
  ELSE IF c = "\r" THEN <<BS, "r">>
  ELSE IF c = q THEN <<BS, q>>
  ELSE <<c>>

RECURSIVE Escape(_, _)
Escape(s, q) ==
  IF s = <<>> THEN <<>> ELSE EscapeChar(Head(s), q) \o Escape(Tail(s), q)

\* repr() of a str: '{0!r}'.
Repr(s) == LET q == ReprQuote(s) IN <<q>> \o Escape(s, q) \o <<q>>

\* str() of a bytes object: its repr, b'...'.
StrOfBytes(b) == <<"b">> \o Repr(b)

\* sub in text
Contains(text, sub) ==
  \E i \in 1..(Len(text) - Len(sub) + 1) : SubSeq(text, i, i + Len(sub) - 1) = sub

RECURSIVE Rstrip(_)
Rstrip(s) ==
  IF s = <<>> THEN <<>>
  ELSE IF s[Len(s)] \in Whitespace THEN Rstrip(SubSeq(s, 1, Len(s) - 1))
  ELSE s

\* str.splitlines(): the lines without their terminators; no empty last line.
RECURSIVE SplitLinesFrom(_, _)
SplitLinesFrom(s, cur) ==
  IF s = <<>> THEN (IF cur = <<>> THEN <<>> ELSE <<cur>>)
  ELSE IF Head(s) = NL THEN <<cur>> \o SplitLinesFrom(Tail(s), <<>>)
  ELSE SplitLinesFrom(Tail(s), Append(cur, Head(s)))

SplitLines(s) == SplitLinesFrom(s, <<>>)

\* ','.join(list) on TLA+ strings
RECURSIVE Join(_)
Join(l) ==
  IF l = <<>> THEN ""
  ELSE IF Len(l) = 1 THEN l[1]
  ELSE l[1] \o "," \o Join(Tail(l))

\* zip(ids, sentences): pairs up to the shorter of the two
Zip(a, b) == [i \in 1..Min(Len(a), Len(b)) |-> <<a[i], b[i]>>]

(***************************************************************************)
(* The requests: the keyword arguments of extract_concepts (lines 26-38).  *)
(***************************************************************************)
SentenceTexts == {<<"f">>, <<"a", NL, SQ>>}
IdTexts == {<<"p">>}

DefaultOptions ==
  [composite_phrase |-> 4, word_sense_disambiguation |-> FALSE,
   allow_large_n |-> FALSE, no_derivational_variants |-> FALSE,
   derivational_variants |-> FALSE, ignore_word_order |-> FALSE,
   allow_acronym_variants |-> FALSE, unique_acronym_variants |-> FALSE,
   prefer_multiple_concepts |-> FALSE, ignore_stop_phrases |-> FALSE,
   compute_all_mappings |-> FALSE, max_prune |-> NoneInt,
   exclude_sources |-> None, restrict_sources |-> None,
   restrict_sts |-> None, exclude_sts |-> None]

FullOptions ==
  [composite_phrase |-> 2, word_sense_disambiguation |-> TRUE,
   allow_large_n |-> TRUE, no_derivational_variants |-> TRUE,
   derivational_variants |-> TRUE, ignore_word_order |-> TRUE,
   allow_acronym_variants |-> TRUE, unique_acronym_variants |-> FALSE,
   prefer_multiple_concepts |-> TRUE, ignore_stop_phrases |-> TRUE,
   compute_all_mappings |-> TRUE, max_prune |-> Some(10),
   exclude_sources |-> Some(<<"MSH", "NCI">>), restrict_sources |-> Some(<<"SNOMEDCT_US">>),
   restrict_sts |-> Some(<<"dsyn", "sosy">>), exclude_sts |-> Some(<<"fndg">>)]

OptionBags ==
  {DefaultOptions,
   FullOptions,
   [DefaultOptions EXCEPT !.unique_acronym_variants = TRUE],
   [DefaultOptions EXCEPT !.allow_acronym_variants = TRUE,
                          !.unique_acronym_variants = TRUE]}

OptSeqs(S, n) == {None} \cup {Some(s) : s \in SeqsUpTo(S, n)}

Requests ==
  [opts : OptionBags,
   sentences : OptSeqs(SentenceTexts, MaxSentences),
   ids : OptSeqs(IdTexts, MaxIds),
   filename : {NoFilename, "in.txt", "absent.txt"},
   file_format : {"sldi", "sldiID", "xml"},
   mm_data_version : {MMUnset, "NLM", "2020AA"},
   dir_temp : {NoDirTemp, "/ramdisk", "/missing"},
   metamap_filename : {"metamap"}]

(***************************************************************************)
(* The filesystem the call runs against.                                   *)
(***************************************************************************)
Dirs == {"/tmp", "/ramdisk"}
CallerContent == <<"h", NL>>
InitFiles == ("in.txt" :> CallerContent)

\* What the child process prints and what it leaves in its output file.
StdoutSamples ==
  {<<"o", "k", NL>>,
   <<"E", "R", "R", "O", "R", ":", " ", "n", "o", " ", "m", "a", "t", "c", "h", NL>>,
   <<" ", "E", "R", "R", "O", "R", " ", NL, " ">>,
   <<"E", "R", "R", " ", "O", "R", NL>>}
OutputSamples == {<<>>, <<"x", "|", "y", NL>>, <<"x", NL, "y">>}

\* tempfile.NamedTemporaryFile(..., dir=dir_temp): the directory and the
\* fresh names of the two staged files.
TmpDir(r) == IF r.dir_temp = NoDirTemp THEN "/tmp" ELSE r.dir_temp
InputTmp(r) == TmpDir(r) \o "/tmp_in"
OutputTmp(r) == TmpDir(r) \o "/tmp_out"

SentenceMode(r) == ~r.sentences.isNone

\* input_file.name
InputName(r) == IF SentenceMode(r) THEN InputTmp(r) ELSE r.filename

\* output_file is assigned only in the else branch of line 83 (lines 88-93).
OutputFileBound(r) == ~SentenceMode(r)

RemoveFile(fs, p) == [q \in DOMAIN fs \ {p} |-> fs[q]]

\* PreCheck without the file_format check of line 78.
PreCheck_NoFormatCheck(r) ==
  IF r.opts.allow_acronym_variants /\ r.opts.unique_acronym_variants
    THEN Exc("ValueError", 72)
  ELSE IF (~r.sentences.isNone /\ r.filename # NoFilename)
          \/ (r.sentences.isNone /\ r.filename = NoFilename)
    THEN Exc("ValueError", 76)
  ELSE NoExc

(***************************************************************************)
(* Lines 71-79: the three pre-checks.                                      *)
(***************************************************************************)
PreCheck(r) ==
  IF r.opts.allow_acronym_variants /\ r.opts.unique_acronym_variants
    THEN Exc("ValueError", 72)
  ELSE IF (~r.sentences.isNone /\ r.filename # NoFilename)
          \/ (r.sentences.isNone /\ r.filename = NoFilename)
    THEN Exc("ValueError", 76)
  ELSE IF r.file_format \notin {"sldi", "sldiID"}
    THEN Exc("ValueError", 79)
  ELSE NoExc

\* Line 109
MMValid(r) == r.mm_data_version = MMUnset \/ r.mm_data_version \in {"Base", "USAbase", "NLM"}

(***************************************************************************)
(* Lines 96-102: the lines written to the staged input file.               *)
(***************************************************************************)
LineWithId(identifier, sentence) == Repr(identifier) \o <<"|">> \o Repr(sentence) \o <<NL>>
LineOf(sentence) == Repr(sentence) \o <<NL>>

\* The records the loop of line 98 or of line 101 iterates over, as lines.
StagedLines(r) ==
  IF ~r.ids.isNone
    THEN LET z == Zip(r.ids.val, r.sentences.val)
         IN [i \in 1..Len(z) |-> LineWithId(z[i][1], z[i][2])]
    ELSE [i \in 1..Len(r.sentences.val) |-> LineOf(r.sentences.val[i])]

(***************************************************************************)
(* Lines 105-155: the command vector.                                      *)
(***************************************************************************)
Flag(cond, tok) == IF cond THEN <<tok>> ELSE <<>>
ListFlag(opt, prefix) == IF opt.isNone THEN <<>> ELSE <<prefix \o Join(opt.val)>>

\* Lines 105-107
BaseCommand(r) == <<r.metamap_filename, "-N", "-Q", ToString(r.opts.composite_phrase)>>

\* SelectorFlag without the `sentences is None` conjunct of line 134.
SelectorFlag_AnyMode(r) ==
  IF ~r.ids.isNone \/ r.file_format = "sldiID" THEN "--sldiID" ELSE "--sldi"

\* Lines 133-137
SelectorFlag(r) ==
  IF ~r.ids.isNone \/ (r.file_format = "sldiID" /\ r.sentences.isNone)
    THEN "--sldiID" ELSE "--sldi"

\* Lines 105-154: everything up to and including input_file.name.
CommandPrefix(r) ==
  BaseCommand(r)
  \o (IF r.mm_data_version # MMUnset THEN <<"-V", r.mm_data_version>> ELSE <<>>)
  \o Flag(r.opts.word_sense_disambiguation, "-y")
  \o Flag(r.opts.allow_large_n, "-l")
  \o Flag(r.opts.no_derivational_variants, "-d")
  \o Flag(r.opts.derivational_variants, "-D")
  \o Flag(r.opts.ignore_word_order, "-i")
  \o Flag(r.opts.allow_acronym_variants, "-a")
  \o Flag(r.opts.unique_acronym_variants, "-u")
  \o Flag(r.opts.prefer_multiple_concepts, "-Y")
  \o Flag(r.opts.ignore_stop_phrases, "-K")
  \o Flag(r.opts.compute_all_mappings, "-b")
  \o <<SelectorFlag(r)>>
  \o ListFlag(r.opts.exclude_sources, "-e ")
  \o ListFlag(r.opts.restrict_sources, "-R ")
  \o ListFlag(r.opts.exclude_sts, "-k ")
  \o ListFlag(r.opts.restrict_sts, "-J ")
  \o (IF r.opts.max_prune.isNone THEN <<>>
      ELSE <<"--prune " \o ToString(r.opts.max_prune.val)>>)
  \o <<InputName(r)>>

(***************************************************************************)
(* Lines 158-160: the failure check on the captured standard output.       *)
(***************************************************************************)
ErrorDetected(out) == Contains(StrOfBytes(out), <<"E", "R", "R", "O", "R">>)

\* ErrorPayload without the rstrip() of line 160.
ErrorPayload_NoTrim(out, err) == IF ErrorDetected(out) THEN Some(out) ELSE err

\* The value of `error` after line 160, from its value at line 94.
ErrorPayload(out, err) == IF ErrorDetected(out) THEN Some(Rstrip(out)) ELSE err

\* Popen.terminate(): a no-op on a child that has already been waited for.
Terminate(c) == IF c = "running" THEN "terminated" ELSE c

(***************************************************************************)
(* Line 175: Corpus.load builds one concept record per output line.        *)
(***************************************************************************)
Corpus_load(lines) == [i \in 1..Len(lines) |-> [record |-> lines[i]]]

(***************************************************************************)
(* Lines 168-173: the finally block.                                       *)
(***************************************************************************)
\* FinallyFiles with line 173 alone: the staged input file is left behind.
FinallyFiles_KeepsInput(r, fs) ==
  IF OutputFileBound(r) THEN RemoveFile(fs, OutputTmp(r)) ELSE fs

\* Lines 169-170 and 173 on the filesystem; line 173 is only reached with
\* its operand evaluated when output_file is bound.
FinallyFiles(r, fs) ==
  LET afterInput == IF SentenceMode(r) THEN RemoveFile(fs, InputName(r)) ELSE fs
  IN IF OutputFileBound(r) THEN RemoveFile(afterInput, OutputTmp(r)) ELSE afterInput

\* Lines 171-172 on the open handles.
FinallyHandles(r, hs) == IF SentenceMode(r) THEN hs ELSE hs \ {"input_file"}

\* The exception that leaves the finally block: the NameError of line 173
\* when output_file is unbound, else the one that entered it (if any).
FinallyExc(r, p) == IF OutputFileBound(r) THEN p ELSE Exc("UnboundLocalError", 173)

(***************************************************************************)
(* Control flow of the body: the step that follows step p when p raises    *)
(* nothing.                                                                *)
(***************************************************************************)
\* NextPc without the communicate() of line 157: the output is checked and
\* read while the child may still be running.
NextPc_NoWait(p, r) ==
  CASE p = "open" -> IF SentenceMode(r) THEN "write" ELSE "build"
    [] p = "write" -> "build"
    [] p = "build" -> "popen"
    [] p = "popen" -> "check"
    [] p = "communicate" -> "check"
    [] p = "check" -> "read"
    [] p = "read" -> "finally"
    [] p = "finally" -> "load"
    [] p = "load" -> "returned"

NextPc(p, r) ==
  CASE p = "open" -> IF SentenceMode(r) THEN "write" ELSE "build"
    [] p = "write" -> "build"
    [] p = "build" -> "popen"
    [] p = "popen" -> "communicate"
    [] p = "communicate" -> "check"
    [] p = "check" -> "read"
    [] p = "read" -> "finally"
    [] p = "finally" -> "load"
    [] p = "load" -> "returned"

\* The states of the call's state machine each step belongs to.
Phase(p) ==
  CASE p = "idle" -> "IDLE"
    [] p \in {"open", "write", "build"} -> "STAGING_INPUT"
    [] p \in {"popen", "communicate", "check"} -> "INVOKING"
    [] p = "read" -> "READING_OUTPUT"
    [] p = "finally" -> "CLEANUP"
    [] p \in {"load", "returned"} -> "RETURNED"
    [] p = "raised" -> "RAISED"

(***************************************************************************)
(* The state before the call.                                              *)
(***************************************************************************)
NoResult == [concepts |-> <<>>, error |-> None]

\* The defaults of the signature (lines 26-38): no call has been made.
NoRequest ==
  [opts |-> DefaultOptions, sentences |-> None, ids |-> None, filename |-> NoFilename,
   file_format |-> "sldi", mm_data_version |-> MMUnset, dir_temp |-> NoDirTemp,
   metamap_filename |-> "metamap"]

Init ==
  /\ pc = "idle"
  /\ req = NoRequest
  /\ files = InitFiles
  /\ handles = {}
  /\ buffer = <<>>
  /\ idx = 1
  /\ command = <<>>
  /\ child = "none"
  /\ out1 = <<>>
  /\ error = None
  /\ output = <<>>
  /\ pending = NoExc
  /\ exc = NoExc
  /\ result = NoResult
  /\ events = <<>>
  /\ trace = <<>>
  /\ spawnCount = 0
  /\ created = {}
  /\ faults = {}
  /\ cleanupDone = FALSE
  /\ childWrote = <<>>

\* Move to step p, recording the state-machine state entered.
Goto(p) ==
  /\ pc' = p
  /\ trace' = IF trace # <<>> /\ trace[Len(trace)] = Phase(p) THEN trace
              ELSE Append(trace, Phase(p))

\* An exception raised outside the try block reaches the caller at once.
Raise(e) == Goto("raised") /\ exc' = e

\* An exception raised inside the try block (lines 95-167) enters the
\* finally block.
RaiseInTry(e) == Goto("finally") /\ pending' = e

(***************************************************************************)
(* Lines 71-79: the call and its pre-checks.                               *)
(***************************************************************************)
Call(r) ==
  /\ pc = "idle"
  /\ req' = r
  /\ trace' = <<"VALIDATING">> \o
              (IF PreCheck(r) = NoExc THEN <<Phase("open")>> ELSE <<Phase("raised")>>)
  /\ IF PreCheck(r) = NoExc
       THEN pc' = "open" /\ exc' = exc
       ELSE pc' = "raised" /\ exc' = PreCheck(r)
  /\ UNCHANGED <<files, handles, buffer, idx, command, child, out1, error, output,
                 pending, result, events, spawnCount, created, faults, cleanupDone, childWrote>>

(***************************************************************************)
(* Lines 81-94: the files of the call are created and opened.              *)
(***************************************************************************)
OpenFiles ==
  /\ pc = "open"
  /\ IF SentenceMode(req)
       THEN IF TmpDir(req) \in Dirs
              THEN /\ files' = (InputTmp(req) :> <<>>) @@ files
                   /\ handles' = handles \cup {"input_file"}
                   /\ created' = created \cup {InputTmp(req)}
                   /\ events' = Append(events, "create_input")
                   /\ Goto(NextPc("open", req))
                   /\ UNCHANGED <<exc, faults>>
              ELSE /\ Raise(Exc("FileNotFoundError", 85))
                   /\ faults' = faults \cup {"create"}
                   /\ UNCHANGED <<files, handles, created, events>>
       ELSE IF req.filename \notin DOMAIN files
              THEN /\ Raise(Exc("FileNotFoundError", 89))
                   /\ faults' = faults \cup {"open"}
                   /\ UNCHANGED <<files, handles, created, events>>
            ELSE IF TmpDir(req) \in Dirs
              THEN /\ files' = (OutputTmp(req) :> <<>>) @@ files
                   /\ handles' = handles \cup {"input_file", "output_file"}
                   /\ created' = created \cup {OutputTmp(req)}
                   /\ events' = events \o <<"open_input", "create_output">>
                   /\ Goto(NextPc("open", req))
                   /\ UNCHANGED <<exc, faults>>
              ELSE /\ Raise(Exc("FileNotFoundError", 91))
                   /\ handles' = handles \cup {"input_file"}
                   /\ events' = Append(events, "open_input")
                   /\ faults' = faults \cup {"create"}
                   /\ UNCHANGED <<files, created>>
  /\ error' = None
  /\ idx' = 1
  /\ UNCHANGED <<req, buffer, command, child, out1, output, pending, result,
                 spawnCount, cleanupDone, childWrote>>

(***************************************************************************)
(* Lines 98-102: one iteration of the loop writes one line to the buffer   *)
(* of input_file.                                                          *)
(***************************************************************************)
WriteLine ==
  /\ pc = "write"
  /\ idx <= Len(StagedLines(req))
  /\ buffer' = buffer \o StagedLines(req)[idx]
  /\ idx' = idx + 1
  /\ events' = Append(events, "write")
  /\ UNCHANGED <<pc, trace, req, files, handles, command, child, out1, error, output,
                 pending, exc, result, spawnCount, created, faults, cleanupDone, childWrote>>

(***************************************************************************)
(* Line 103: after the loop, input_file.flush() moves the buffer to the    *)
(* file, or fails.                                                         *)
(***************************************************************************)
Flush ==
  /\ pc = "write"
  /\ idx > Len(StagedLines(req))
  /\ \E ok \in BOOLEAN :
       IF ok
         THEN /\ files' = [files EXCEPT ![InputTmp(req)] = @ \o buffer]
              /\ buffer' = <<>>
              /\ events' = Append(events, "flush")
              /\ Goto(NextPc("write", req))
              /\ UNCHANGED <<pending, faults>>
         ELSE /\ RaiseInTry(Exc("OSError", 103))
              /\ faults' = faults \cup {"flush"}
              /\ UNCHANGED <<files, buffer, events>>
  /\ UNCHANGED <<req, handles, idx, command, child, out1, error, output, exc, result,
                 spawnCount, created, cleanupDone, childWrote>>

(***************************************************************************)
(* Lines 105-155: the command vector is built.                             *)
(***************************************************************************)
BuildCommand ==
  /\ pc = "build"
  /\ IF ~MMValid(req)
       THEN /\ command' = BaseCommand(req)
            /\ RaiseInTry(Exc("ValueError", 110))
       ELSE IF ~OutputFileBound(req)
         THEN /\ command' = CommandPrefix(req)
              /\ RaiseInTry(Exc("UnboundLocalError", 155))
         ELSE /\ command' = Append(CommandPrefix(req), OutputTmp(req))
              /\ Goto(NextPc("build", req))
              /\ UNCHANGED pending
  /\ UNCHANGED <<req, files, handles, buffer, idx, child, out1, error, output, exc,
                 result, events, spawnCount, created, faults, cleanupDone, childWrote>>

(***************************************************************************)
(* Line 156: the child process is spawned, or cannot be.                   *)
(***************************************************************************)
Popen ==
  /\ pc = "popen"
  /\ \E ok \in BOOLEAN :
       IF ok
         THEN /\ child' = "running"
              /\ spawnCount' = spawnCount + 1
              /\ events' = Append(events, "spawn")
              /\ Goto(NextPc("popen", req))
              /\ UNCHANGED <<pending, faults>>
         ELSE /\ RaiseInTry(Exc("OSError", 156))
              /\ faults' = faults \cup {"spawn"}
              /\ UNCHANGED <<child, spawnCount, events>>
  /\ UNCHANGED <<req, files, handles, buffer, idx, command, out1, error, output, exc,
                 result, created, cleanupDone, childWrote>>

(***************************************************************************)
(* Line 157: communicate() returns when the child has exited; the child    *)
(* has printed out1 and written the file named by the last argument.       *)
(***************************************************************************)
Communicate ==
  /\ pc = "communicate"
  /\ \E o \in StdoutSamples, w \in OutputSamples :
       /\ out1' = o
       /\ files' = [files EXCEPT ![command[Len(command)]] = w]
       /\ childWrote' = w
  /\ child' = IF child = "running" THEN "exited" ELSE child
  /\ events' = Append(events, "exit")
  /\ Goto(NextPc("communicate", req))
  /\ UNCHANGED <<req, handles, buffer, idx, command, error, output, pending, exc,
                 result, spawnCount, created, faults, cleanupDone>>

(***************************************************************************)
(* Lines 158-160: the failure check.                                       *)
(***************************************************************************)
CheckError ==
  /\ pc = "check"
  /\ IF ErrorDetected(out1)
       THEN /\ child' = Terminate(child)
            /\ events' = Append(events, "terminate")
       ELSE UNCHANGED <<child, events>>
  /\ error' = ErrorPayload(out1, error)
  /\ Goto(NextPc("check", req))
  /\ UNCHANGED <<req, files, handles, buffer, idx, command, out1, output, pending, exc,
                 result, spawnCount, created, faults, cleanupDone, childWrote>>

(***************************************************************************)
(* Line 167: the staged output file is read, or the read fails.            *)
(***************************************************************************)
ReadOutput ==
  /\ pc = "read"
  /\ \E ok \in BOOLEAN :
       IF ok
         THEN /\ output' = files[OutputTmp(req)]
              /\ events' = Append(events, "read")
              /\ Goto(NextPc("read", req))
              /\ UNCHANGED <<pending, faults>>
         ELSE /\ RaiseInTry(Exc("UnicodeDecodeError", 167))
              /\ faults' = faults \cup {"read"}
              /\ UNCHANGED <<output, events>>
  /\ UNCHANGED <<req, files, handles, buffer, idx, command, child, out1, error, exc,
                 result, spawnCount, created, cleanupDone, childWrote>>

(***************************************************************************)
(* Lines 168-173: the finally block, then the pending exception (if any)   *)
(* continues to the caller.                                                *)
(***************************************************************************)
Finally ==
  /\ pc = "finally"
  /\ files' = FinallyFiles(req, files)
  /\ handles' = FinallyHandles(req, handles)
  /\ events' = events
               \o (IF SentenceMode(req) THEN <<"remove_input">> ELSE <<"close_input">>)
               \o (IF OutputFileBound(req) THEN <<"remove_output">> ELSE <<>>)
  /\ cleanupDone' = OutputFileBound(req)
  /\ IF FinallyExc(req, pending) # NoExc
       THEN Raise(FinallyExc(req, pending))
       ELSE Goto(NextPc("finally", req)) /\ UNCHANGED exc
  /\ UNCHANGED <<req, buffer, idx, command, child, out1, error, output, pending,
                 result, spawnCount, created, faults, childWrote>>

(***************************************************************************)
(* Lines 175-176: the output is decoded and the pair returned.             *)
(***************************************************************************)
Return ==
  /\ pc = "load"
  /\ result' = [concepts |-> Corpus_load(SplitLines(output)), error |-> error]
  /\ Goto(NextPc("load", req))
  /\ UNCHANGED <<req, files, handles, buffer, idx, command, child, out1, error, output,
                 pending, exc, spawnCount, created, faults, events, cleanupDone, childWrote>>

Next ==
  \/ \E r \in Requests : Call(r)
  \/ OpenFiles
  \/ WriteLine
  \/ Flush
  \/ BuildCommand
  \/ Popen
  \/ Communicate
  \/ CheckError
  \/ ReadOutput
  \/ Finally
  \/ Return

Spec == Init /\ [][Next]_vars

(***************************************************************************)
(* Properties of one call.                                                 *)
(***************************************************************************)
Called == pc # "idle"
Ended == pc \in {"returned", "raised"}
ErrorText == <<"E", "R", "R", "O", "R">>

\* A request that breaks one of the three pre-checked invariants.
ViolatesPreCheck(r) ==
  \/ r.opts.allow_acronym_variants /\ r.opts.unique_acronym_variants
  \/ r.sentences.isNone <=> (r.filename = NoFilename)
  \/ r.file_format \notin {"sldi", "sldiID"}

\* Every occurrence of event e in the log has an `earlier` event before it.
Precedes(earlier, e) ==
  \A i \in 1..Len(events) :
    events[i] = e => \E j \in 1..(i - 1) : events[j] = earlier

CountBefore(e, i) == Cardinality({j \in 1..(i - 1) : events[j] = e})

\* e is o without its trailing whitespace.
IsRightTrimOf(e, o) ==
  \E k \in 0..Len(o) :
    /\ e = SubSeq(o, 1, k)
    /\ \A i \in (k + 1)..Len(o) : o[i] \in Whitespace
    /\ k > 0 => o[k] \notin Whitespace

\* The concepts are what the concept-record parser makes of the lines of text.
DecodedFrom(concepts, text) == concepts = Corpus_load(SplitLines(text))

\* C1: a call whose request passes validation and whose spawn and file I/O
\* all succeed goes through STAGING_INPUT, INVOKING, READING_OUTPUT and
\* CLEANUP in that order, spawns the tool exactly once, and ends in RETURNED
\* with a pair, in sentence mode as well as in filename mode.
C1_FullRunReturns ==
  (Ended /\ PreCheck(req) = NoExc /\ MMValid(req) /\ faults = {})
    => /\ pc = "returned"
       /\ trace = <<"VALIDATING", "STAGING_INPUT", "INVOKING", "READING_OUTPUT",
                    "CLEANUP", "RETURNED">>
       /\ spawnCount = 1

\* C2: once a call that got past validation has ended, by return or by
\* exception, none of the temporary files it created exists any more.
C2_StagedFilesGone ==
  (Ended /\ ~ViolatesPreCheck(req)) => \A p \in created : p \notin DOMAIN files

C2_Witness ==
  /\ pc = "raised"
  /\ "read" \in faults
  /\ created = {OutputTmp(req)}
  /\ InSeq("exit", events)

\* C3: a request that breaks one of the three pre-checks fails with a
\* ValueError raised by the checks, with no file created or opened and no
\* child process spawned.
C3_PreChecksFailFast ==
  (Called /\ ViolatesPreCheck(req))
    => /\ pc = "raised"
       /\ exc.type = "ValueError" /\ exc.line \in {72, 76, 79}
       /\ created = {} /\ handles = {} /\ files = InitFiles
       /\ events = <<>> /\ spawnCount = 0

C3_Witness ==
  /\ pc = "raised"
  /\ req.file_format = "xml"
  /\ ~req.sentences.isNone /\ req.filename = NoFilename
  /\ exc = Exc("ValueError", 79)

\* C4: a request whose only fault is an unrecognised mm_data_version (the
\* temporary directory and the caller's file exist) fails with the
\* data-version ValueError, and no temporary file has been created and no
\* caller file opened when it is raised.
C4_DataVersionBeforeIO ==
  (Ended /\ ~ViolatesPreCheck(req) /\ ~MMValid(req)
         /\ TmpDir(req) \in Dirs /\ (SentenceMode(req) \/ req.filename \in DOMAIN InitFiles))
    => /\ exc = Exc("ValueError", 110)
       /\ created = {}
       /\ ~InSeq("open_input", events)

C6_SameExceptionAfterCleanup ==
  (pc = "raised" /\ pending # NoExc) => (exc = pending /\ cleanupDone)

\* C7: a command vector built as far as the selector holds exactly one
\* selector flag, and it is --sldiID exactly when ids were supplied or the
\* request reads a pre-built file with file_format sldiID.
C7_SelectorFlag ==
  (command # <<>> /\ MMValid(req))
    => /\ Cardinality({i \in 1..Len(command) : command[i] \in {"--sldi", "--sldiID"}}) = 1
       /\ InSeq("--sldiID", command)
            <=> (~req.ids.isNone \/ (req.sentences.isNone /\ req.file_format = "sldiID"))

C7_Witness ==
  /\ command # <<>>
  /\ ~req.sentences.isNone /\ req.ids.isNone /\ req.file_format = "sldiID"
  /\ InSeq("--sldi", command)

\* C8: within one call every line is written before the flush and the flush
\* comes before the spawn; the output is read only after the child exited;
\* terminate is requested only on ERROR and only after the exit; and a
\* staged file is removed before the read only when an exception is pending.
C8_StepOrder ==
  /\ \A i \in 1..Len(events) :
       events[i] = "flush" => CountBefore("write", i) = Len(StagedLines(req))
  /\ \A i \in 1..Len(events) :
       events[i] = "write" => CountBefore("flush", i) = 0
  /\ SentenceMode(req) => Precedes("flush", "spawn")
  /\ InSeq("spawn", events) => buffer = <<>>
  /\ Precedes("spawn", "exit")
  /\ Precedes("exit", "read")
  /\ Precedes("exit", "terminate")
  /\ InSeq("terminate", events) => Contains(out1, ErrorText)
  /\ InSeq("read", events) => child = "exited"
  /\ pending = NoExc => Precedes("read", "remove_input") /\ Precedes("read", "remove_output")

C8_Witness ==
  /\ pc = "returned"
  /\ InSeq("terminate", events)
  /\ events[Len(events)] = "remove_output"

\* C9: in filename mode, once the caller's file has been opened, the call
\* ends with that file still present and unchanged and with the handle on
\* it closed.
C9_CallerFileClosedAndKept ==
  (Ended /\ InSeq("open_input", events))
    => /\ req.filename \in DOMAIN files
       /\ files[req.filename] = CallerContent
       /\ "input_file" \notin handles

\* C10: in sentence mode, when staging ends the staged input file holds one
\* line per supplied sentence, in order: the repr of the sentence, preceded
\* by the repr of the i-th identifier and a bar when ids were given.
C10_OneLinePerSentence ==
  (pc = "build" /\ SentenceMode(req))
    => LET lines == SplitLines(files[InputTmp(req)])
           sents == req.sentences.val
       IN /\ Len(lines) = Len(sents)
          /\ \A i \in 1..Len(lines) :
               IF req.ids.isNone
                 THEN lines[i] = Repr(sents[i])
                 ELSE /\ i <= Len(req.ids.val)
                      /\ lines[i] = Repr(req.ids.val[i]) \o <<"|">> \o Repr(sents[i])

====
